---- MODULE Spec2Model ----
(***************************************************************************)
(* A model of the mock FTP server of src/ftpd.py: the control session loop *)
(* (FTPMockServer.handle_client), the command dispatcher and its handlers  *)
(* (FTPCommandHandler), the passive data channel                           *)
(* (FTPCommandHandler.handle_data_connection), the virtual file store      *)
(* (VirtualFileSystem) and the fault policy (MockBehavior).                *)
(*                                                                         *)
(* Python strings are sequences of one-character strings, so that split,   *)
(* join, replace, startswith and endswith are computed as Python computes  *)
(* them.  A datetime is <<year, month, day, hour, minute, second>>.        *)
(***************************************************************************)
EXTENDS Integers, Sequences, FiniteSets, TLC

(***************************************************************************)
(* Python's str operations used by the server                              *)
(***************************************************************************)

\* s.startswith('/')
StartsWithSlash(s) == Len(s) > 0 /\ s[1] = "/"

\* s.endswith('/')
EndsWithSlash(s) == Len(s) > 0 /\ s[Len(s)] = "/"

\* '//' in s
HasDoubleSlash(s) == \E i \in 1..(Len(s) - 1) : s[i] = "/" /\ s[i + 1] = "/"

\* s.replace('//', '/'): one pass, left to right, non-overlapping matches
RECURSIVE ReplaceDoubleSlash(_)
ReplaceDoubleSlash(s) ==
    IF Len(s) < 2 THEN s
    ELSE IF s[1] = "/" /\ s[2] = "/"
         THEN <<"/">> \o ReplaceDoubleSlash(SubSeq(s, 3, Len(s)))
         ELSE <<s[1]>> \o ReplaceDoubleSlash(SubSeq(s, 2, Len(s)))

\* while '//' in s: s = s.replace('//', '/')
RECURSIVE CollapseLoop(_)
CollapseLoop(s) == IF HasDoubleSlash(s) THEN CollapseLoop(ReplaceDoubleSlash(s)) ELSE s

\* s.rstrip('/')
RECURSIVE RStripSlash(_)
RStripSlash(s) == IF EndsWithSlash(s) THEN RStripSlash(SubSeq(s, 1, Len(s) - 1)) ELSE s

\* s.split('/'): the list of the segments between the separators
RECURSIVE SplitSlash(_)
SplitSlash(s) ==
    IF \A i \in 1..Len(s) : s[i] # "/" THEN <<s>>
    ELSE LET i == CHOOSE k \in 1..Len(s) : s[k] = "/" /\ \A j \in 1..(k - 1) : s[j] # "/"
         IN  <<SubSeq(s, 1, i - 1)>> \o SplitSlash(SubSeq(s, i + 1, Len(s)))

\* '/'.join(parts)
RECURSIVE JoinSlash(_)
JoinSlash(parts) ==
    IF Len(parts) = 0 THEN <<>>
    ELSE IF Len(parts) = 1 THEN parts[1]
    ELSE parts[1] \o <<"/">> \o JoinSlash(Tail(parts))

\* parts[:-1]
ButLast(parts) == SubSeq(parts, 1, Len(parts) - 1)

\* '/'.join(path.split('/')[:-1]) or '/'
DirName(path) ==
    LET d == JoinSlash(ButLast(SplitSlash(path)))
    IN  IF d = <<>> THEN <<"/">> ELSE d

\* path.split('/')[-1]
BaseName(path) == LET parts == SplitSlash(path) IN parts[Len(parts)]

\* datetime.strftime('%b %d %H:%M'): month, day, hour and minute; the year
\* and the seconds are not rendered
Strftime(t) == <<t[2], t[3], t[4], t[5]>>

(***************************************************************************)
(* Strings of the fixture and of the clients                               *)
(***************************************************************************)

Root == <<"/">>
PathDocs == <<"/", "d", "o", "c", "s">>
PathDocsSpecs == <<"/", "d", "o", "c", "s", "/", "s", "p", "e", "c", "s">>
PathImages == <<"/", "i", "m", "a", "g", "e", "s">>
PathImagesThumbnails ==
    <<"/", "i", "m", "a", "g", "e", "s", "/", "t", "h", "u", "m", "b", "n", "a", "i", "l", "s">>

NameDocs == <<"d", "o", "c", "s">>
NameImages == <<"i", "m", "a", "g", "e", "s">>
NameSpecs == <<"s", "p", "e", "c", "s">>
NameThumbnails == <<"t", "h", "u", "m", "b", "n", "a", "i", "l", "s">>

NameReadme == <<"R", "E", "A", "D", "M", "E", ".", "t", "x", "t">>
NameDataBin == <<"d", "a", "t", "a", ".", "b", "i", "n">>
NameManual == <<"m", "a", "n", "u", "a", "l", ".", "p", "d", "f">>
NameSpecsDoc == <<"s", "p", "e", "c", "s", ".", "d", "o", "c">>
NameApiMd == <<"a", "p", "i", ".", "m", "d">>
NamePhoto == <<"p", "h", "o", "t", "o", ".", "j", "p", "g">>
NameIcon == <<"i", "c", "o", "n", ".", "p", "n", "g">>
NameThumb1 == <<"t", "h", "u", "m", "b", "1", ".", "j", "p", "g">>

\* a bytes object: its text and len(...) of it
Bytes(text, len) == [text |-> text, len |-> len]

\* FileInfo(name, size, modified, content)
FileInfo(name, size, modified, content) ==
    [name |-> name, size |-> size, modified |-> modified, content |-> content]

\* DirectoryInfo(files, dirs)
DirectoryInfo(files, dirs) == [files |-> files, dirs |-> dirs]

\* datetime(2024, 1, d)
Jan2024(d) == <<2024, 1, d, 0, 0, 0>>

\* VirtualFileSystem.__init__: the fixture
InitialFs ==
    (Root :> DirectoryInfo(
        << FileInfo(NameReadme, 1024, Jan2024(1),
                    Bytes("Welcome to FTP server", 21)),
           FileInfo(NameDataBin, 2048, Jan2024(2),
                    Bytes("Binary data", 11)) >>,
        << NameDocs, NameImages >>))
    @@ (PathDocs :> DirectoryInfo(
        << FileInfo(NameManual, 4096, Jan2024(3),
                    Bytes("PDF content", 11)),
           FileInfo(NameSpecsDoc, 3072, Jan2024(4),
                    Bytes("Doc content", 11)) >>,
        << NameSpecs >>))
    @@ (PathDocsSpecs :> DirectoryInfo(
        << FileInfo(NameApiMd, 512, Jan2024(5),
                    Bytes("API docs", 8)) >>,
        << >>))
    @@ (PathImages :> DirectoryInfo(
        << FileInfo(NamePhoto, 8192, Jan2024(6),
                    Bytes("JPEG data", 9)),
           FileInfo(NameIcon, 1024, Jan2024(7),
                    Bytes("PNG data", 8)) >>,
        << NameThumbnails >>))
    @@ (PathImagesThumbnails :> DirectoryInfo(
        << FileInfo(NameThumb1, 256, Jan2024(8),
                    Bytes("Small JPEG", 10)) >>,
        << >>))

(***************************************************************************)
(* VirtualFileSystem: pure parts.  An Optional value is a sequence of at   *)
(* most one element (<<>> is None).                                        *)
(***************************************************************************)

\* get_dir_info(path): self.fs.get(path)
get_dir_info(store, path) == IF path \in DOMAIN store THEN <<store[path]>> ELSE <<>>

\* the first element of files named filename, as the for loop finds it
RECURSIVE FirstNamed(_, _)
FirstNamed(files, filename) ==
    IF Len(files) = 0 THEN <<>>
    ELSE IF files[1].name = filename THEN <<files[1]>>
    ELSE FirstNamed(Tail(files), filename)

\* get_file_info(path)
get_file_info(store, path) ==
    LET dirname == DirName(path)
        filename == BaseName(path)
        dir_info == get_dir_info(store, dirname)
    IN  IF dir_info # <<>> THEN FirstNamed(dir_info[1].files, filename) ELSE <<>>

\* replace the first element of files named as new_file, or append new_file
RECURSIVE ReplaceNamed(_, _)
ReplaceNamed(files, new_file) ==
    IF Len(files) = 0 THEN <<new_file>>
    ELSE IF files[1].name = new_file.name THEN <<new_file>> \o Tail(files)
    ELSE <<files[1]>> \o ReplaceNamed(Tail(files), new_file)

\* a store that overwrites the entry of the same name
store_file_overwriting(store, path, content, now) ==
    LET dirname == DirName(path)
        filename == BaseName(path)
        dir_info == get_dir_info(store, dirname)
    IN  IF dir_info # <<>>
        THEN [store EXCEPT ![dirname].files =
                 ReplaceNamed(@, FileInfo(filename, content.len, now, content))]
        ELSE store

\* store_file(path, content), with datetime.now() = now: the store afterwards
store_file(store, path, content, now) ==
    LET dirname == DirName(path)
        filename == BaseName(path)
        dir_info == get_dir_info(store, dirname)
    IN  IF dir_info # <<>>
        THEN [store EXCEPT ![dirname].files =
                 Append(@, FileInfo(filename, content.len, now, content))]
        ELSE store

(***************************************************************************)
(* FTPResponse and the reply texts.  A message is its format string with   *)
(* the values substituted into it: str (a path or a verb) and nums.        *)
(***************************************************************************)

Message(text, str, nums) == [text |-> text, str |-> str, nums |-> nums]

Text(text) == Message(text, <<>>, <<>>)

FTPResponse(code, message) == [code |-> code, message |-> message]

\* f"{command} command failed"
CommandFailed(command) == Message("{command} command failed", <<command>>, <<>>)

\* f"\"{self.current_directory}\" is current directory"
IsCurrentDirectory(cwd) == Message("\"{current_directory}\" is current directory", cwd, <<>>)

\* FTPResponse(220, "Welcome to FTP Mock Server")
Greeting == FTPResponse(220, Text("Welcome to FTP Mock Server"))

\* FTPResponse(226, "Transfer complete")
TransferComplete == FTPResponse(226, Text("Transfer complete"))

\* the verbs of command_handlers, which are also the verbs the settings window
\* registers an error flag for
Verbs == {"USER", "PASS", "PWD", "TYPE", "PASV", "LIST", "CWD", "STOR", "QUIT"}

\* the verbs whose handler is a coroutine that asks the fault policy again
SubHandlerVerbs == {"PASV", "LIST", "CWD", "STOR", "QUIT"}

\* the reply of a sub-handler whose own should_return_error check fires
SubHandlerFailed(command) ==
    IF command \in {"CWD", "STOR"}
    THEN FTPResponse(550, CommandFailed(command))
    ELSE FTPResponse(500, CommandFailed(command))

\* the lambdas of command_handlers, and the reply to a verb that has no handler
SimpleReply(command, cwd) ==
    CASE command = "USER" -> FTPResponse(331, Text("User name okay, need password"))
      [] command = "PASS" -> FTPResponse(230, Text("User logged in"))
      [] command = "PWD"  -> FTPResponse(257, IsCurrentDirectory(cwd))
      [] command = "TYPE" -> FTPResponse(200, Text("Type set to I"))
      [] OTHER -> FTPResponse(500, Text("Unknown command"))

(***************************************************************************)
(* FTPCommandHandler: pure parts                                           *)
(***************************************************************************)

\* self.host.split('.')
HostOctets == <<127, 0, 0, 1>>

\* the bounds of random.randint(50000, 50100)
PortLow == 50000
PortHigh == 50100

\* the values random.randint(50000, 50100) can return
RandomPorts == PortLow..PortHigh

\* a 227 reply with the quotient and the remainder in each other's place
PassiveReplySwapped(random_port) ==
    LET p1 == random_port % 256
        p2 == random_port \div 256
    IN  FTPResponse(227, Message("Entering Passive Mode ({h1},{h2},{h3},{h4},{p1},{p2})",
                                 <<>>, HostOctets \o <<p1, p2>>))

\* p1, p2 = divmod(random_port, 256) and the 227 reply
PassiveReply(random_port) ==
    LET p1 == random_port \div 256
        p2 == random_port % 256
    IN  FTPResponse(227, Message("Entering Passive Mode ({h1},{h2},{h3},{h4},{p1},{p2})",
                                 <<>>, HostOctets \o <<p1, p2>>))

\* a resolution that replaces '//' once instead of until none is left
ResolvePathOnePass(cwd, path) ==
    LET joined ==
            IF path = <<".", ".">>
            THEN IF cwd = Root THEN Root
                 ELSE LET parts == SplitSlash(RStripSlash(cwd))
                          up == JoinSlash(ButLast(parts))
                      IN  IF up = <<>> THEN Root ELSE up
            ELSE IF StartsWithSlash(path) THEN path
            ELSE IF EndsWithSlash(cwd) THEN cwd \o path
            ELSE cwd \o <<"/">> \o path
        collapsed == ReplaceDoubleSlash(joined)
        rooted == IF ~StartsWithSlash(collapsed) THEN <<"/">> \o collapsed ELSE collapsed
    IN  IF rooted # Root /\ EndsWithSlash(rooted)
        THEN SubSeq(rooted, 1, Len(rooted) - 1)
        ELSE rooted

\* a resolution whose ".." pops two segments
ResolvePathBarePop(cwd, path) ==
    LET joined ==
            IF path = <<".", ".">>
            THEN JoinSlash(ButLast(ButLast(SplitSlash(cwd))))
            ELSE IF StartsWithSlash(path) THEN path
            ELSE IF EndsWithSlash(cwd) THEN cwd \o path
            ELSE cwd \o <<"/">> \o path
        collapsed == CollapseLoop(joined)
        rooted == IF ~StartsWithSlash(collapsed) THEN <<"/">> \o collapsed ELSE collapsed
    IN  IF rooted # Root /\ EndsWithSlash(rooted)
        THEN SubSeq(rooted, 1, Len(rooted) - 1)
        ELSE rooted

\* the path _handle_cwd_command looks up: the branch on the argument, then the
\* normalisation
ResolvePath(cwd, path) ==
    LET joined ==
            IF path = <<".", ".">>
            THEN IF cwd = Root THEN Root
                 ELSE LET parts == SplitSlash(RStripSlash(cwd))
                          up == JoinSlash(ButLast(parts))
                      IN  IF up = <<>> THEN Root ELSE up
            ELSE IF StartsWithSlash(path) THEN path
            ELSE IF EndsWithSlash(cwd) THEN cwd \o path
            ELSE cwd \o <<"/">> \o path
        collapsed == CollapseLoop(joined)
        rooted == IF ~StartsWithSlash(collapsed) THEN <<"/">> \o collapsed ELSE collapsed
    IN  IF rooted # Root /\ EndsWithSlash(rooted)
        THEN SubSeq(rooted, 1, Len(rooted) - 1)
        ELSE rooted

\* a CWD that did not look the resolved path up in the store
CwdBodyUnchecked(store, cwd, path) ==
    [current_directory |-> ResolvePath(cwd, path),
     response |-> FTPResponse(250, Text("Directory successfully changed."))]

\* a CWD that moved to the resolved path even when it is not in the store
CwdBodyMovingAnyway(store, cwd, path) ==
    LET new_path == ResolvePath(cwd, path)
    IN  [current_directory |-> new_path,
         response |-> IF get_dir_info(store, new_path) # <<>>
                      THEN FTPResponse(250, Text("Directory successfully changed."))
                      ELSE FTPResponse(550, Text("Directory not found."))]

\* _handle_cwd_command after its fault check and delay: the reply and the
\* working directory afterwards
CwdBody(store, cwd, path) ==
    LET new_path == ResolvePath(cwd, path)
    IN  IF get_dir_info(store, new_path) # <<>>
        THEN [current_directory |-> new_path,
              response |-> FTPResponse(250, Text("Directory successfully changed."))]
        ELSE [current_directory |-> cwd,
              response |-> FTPResponse(550, Text("Directory not found."))]

\* one line of a listing
ListingLine(perm, links, size, time, name) ==
    [perm |-> perm, links |-> links, size |-> size, time |-> time, name |-> name]

\* "Jan 01 18:00", the time of the "." and ".." lines
PlaceholderTime == <<1, 1, 18, 0>>

\* _format_directory_entry(name, is_dir), with datetime.now() = now
format_directory_entry(store, cwd, name, is_dir, now) ==
    IF is_dir
    THEN ListingLine("drwxr-xr-x", 2, 4096, Strftime(now), name)
    ELSE LET path == (IF ~EndsWithSlash(cwd) THEN cwd \o <<"/">> ELSE cwd) \o name
             file_info == get_file_info(store, path)
         IN  IF file_info # <<>>
             THEN ListingLine("-rw-r--r--", 1, file_info[1].size,
                              Strftime(file_info[1].modified), name)
             ELSE ListingLine("-rw-r--r--", 1, 0, Strftime(now), name)

\* get_directory_listing(path): the lines of the payload, each ended by CRLF
get_directory_listing(store, cwd, path, now) ==
    LET head == << ListingLine("drwxrwxrwx", 3, 4096, PlaceholderTime, <<".">>),
                   ListingLine("drwxrwxrwx", 3, 4096, PlaceholderTime, <<".", ".">>) >>
        dir_info == get_dir_info(store, path)
    IN  IF dir_info # <<>>
        THEN head
             \o [i \in 1..Len(dir_info[1].dirs) |->
                    format_directory_entry(store, cwd, dir_info[1].dirs[i], TRUE, now)]
             \o [i \in 1..Len(dir_info[1].files) |->
                    format_directory_entry(store, cwd, dir_info[1].files[i].name, FALSE, now)]
        ELSE head

\* handle_client without its "if response.code == 150" branch
ReplyLinesWithout226(response) == <<response>>

\* handle_client: what is written for a response (the response, and the
\* synthetic 226 after a 150)
ReplyLines(response) ==
    IF response.code = 150 THEN <<response, TransferComplete>> ELSE <<response>>

\* handle_client: the loop ends after a QUIT line
BreaksLoop(command) == command = "QUIT"

\* a store branch that put every upload under "/", whatever the working directory
StorePathAtRoot(cwd, filename) == <<"/">> \o filename

\* handle_data_connection: path = current_directory (+ '/') + pending_store_filename
StorePath(cwd, filename) == (IF ~EndsWithSlash(cwd) THEN cwd \o <<"/">> ELSE cwd) \o filename

(***************************************************************************)
(* Bounds                                                                  *)
(***************************************************************************)

\* control connections
NConn == 2
\* command lines read, over all control connections
MaxCmds == 3
\* data connections opened, over all clients
MaxData == 2
\* command lines read in the runs of SpecPasv, which draw every port
MaxPasvCmds == 2
\* command lines read in the runs of SpecFault
MaxFaultCmds == 2
\* command lines read in the runs of SpecResolve
MaxResolveCmds == 2
\* changes of an error flag in the settings window
MaxToggles == 1

Conns == 1..NConn

(***************************************************************************)
(* State                                                                   *)
(***************************************************************************)

VARIABLES
    fs,                      \* VirtualFileSystem.fs
    current_directory,       \* FTPCommandHandler.current_directory
    data_server,             \* FTPCommandHandler.data_server: 0 (None) or an index of servers
    store_mode,              \* FTPCommandHandler.store_mode
    pending_store_filename,  \* FTPCommandHandler.pending_store_filename (Optional)
    pending_data,            \* FTPCommandHandler.pending_data: <<>> while the attribute is absent
    error_settings,          \* MockBehavior.error_settings: the verbs whose BooleanVar is set
    servers,                 \* the listeners asyncio.start_server made: port, open, and the
                             \* control connection whose PASV made it
    pc,                      \* where each handle_client task stands
    request,                 \* the command each handle_client task is processing (Optional)
    transcript,              \* per control connection: the commands answered and the lines written
    data,                    \* the data connections: listener, task position, bytes received, closed
    toggles                  \* changes of an error flag so far

handler == <<current_directory, data_server, store_mode, pending_store_filename, pending_data>>

vars == <<fs, current_directory, data_server, store_mode, pending_store_filename,
          pending_data, error_settings, servers, pc, request, transcript, data, toggles>>

\* FTPMockServer.__init__: one VirtualFileSystem, one MockBehavior and one
\* FTPCommandHandler for the server, whatever the number of connections
Init ==
    /\ fs = InitialFs
    /\ current_directory = Root
    /\ data_server = 0
    /\ store_mode = FALSE
    /\ pending_store_filename = <<>>
    /\ pending_data = <<>>
    /\ error_settings = {}
    /\ servers = <<>>
    /\ pc = [c \in Conns |-> "unconnected"]
    /\ request = [c \in Conns |-> <<>>]
    /\ transcript = [c \in Conns |-> <<>>]
    /\ data = <<>>
    /\ toggles = 0

\* a command line as handle_client parses it
Command(command, args) == [command |-> command, args |-> args, port |-> 0, server |-> 0]

Exchange(command, args, lines) == [command |-> command, args |-> args, lines |-> lines]

RECURSIVE SumLen(_, _)
SumLen(f, n) == IF n = 0 THEN 0 ELSE Len(f[n]) + SumLen(f, n - 1)

\* command lines read so far (each transcript starts with the greeting)
CmdCount == SumLen(transcript, NConn) + SumLen(request, NConn)
               - Cardinality({c \in Conns : pc[c] # "unconnected"})

\* the ports of the listeners that are open
OpenPorts == {servers[i].port : i \in {j \in 1..Len(servers) : servers[j].open}}

\* Server.close() on self.data_server, when it is set
CloseDataServer(srv, ds) == IF ds # 0 THEN [srv EXCEPT ![ds].open = FALSE] ELSE srv

(***************************************************************************)
(* The control session: FTPMockServer.handle_client and                    *)
(* FTPCommandHandler.handle_command.  A step runs a task from one await to *)
(* the next.                                                               *)
(***************************************************************************)

\* handle_client from "response = await handle_command(...)" returning to the
\* next read: the response is written, then the 226 after a 150, and the loop
\* ends after QUIT
Finish(c, cmd, response) ==
    /\ transcript' = [transcript EXCEPT ![c] =
                         Append(@, Exchange(cmd.command, cmd.args, ReplyLines(response)))]
    /\ pc' = [pc EXCEPT ![c] = IF BreaksLoop(cmd.command) THEN "closed" ELSE "read"]
    /\ request' = [request EXCEPT ![c] = <<>>]

\* handle_client's except branch: an exception out of handle_command ends the
\* session with nothing written for the command
Abort(c, cmd) ==
    /\ transcript' = [transcript EXCEPT ![c] = Append(@, Exchange(cmd.command, cmd.args, <<>>))]
    /\ pc' = [pc EXCEPT ![c] = "closed"]
    /\ request' = [request EXCEPT ![c] = <<>>]

\* the task suspends (asyncio.sleep or the awaits of asyncio.start_server)
Suspend(c, cmd, at) ==
    /\ pc' = [pc EXCEPT ![c] = at]
    /\ request' = [request EXCEPT ![c] = <<cmd>>]
    /\ UNCHANGED transcript

\* a sub-handler after its fault check and its delay
Body(c, cmd, W) ==
    CASE cmd.command = "CWD" ->
            LET r == CwdBody(fs, current_directory, cmd.args)
            IN  /\ current_directory' = r.current_directory
                /\ Finish(c, cmd, r.response)
                /\ UNCHANGED <<fs, data_server, store_mode, pending_store_filename,
                               pending_data, servers>>
      [] cmd.command = "STOR" ->
            IF data_server = 0
            THEN /\ Finish(c, cmd, FTPResponse(425, Text("Use PASV first")))
                 /\ UNCHANGED <<fs, handler, servers>>
            ELSE /\ store_mode' = TRUE
                 /\ pending_store_filename' = <<cmd.args>>
                 /\ Finish(c, cmd, FTPResponse(150, Text("Ok to send data")))
                 /\ UNCHANGED <<fs, current_directory, data_server, pending_data, servers>>
      [] cmd.command = "LIST" ->
            IF data_server = 0
            THEN /\ Finish(c, cmd, FTPResponse(425, Text("Use PASV first")))
                 /\ UNCHANGED <<fs, handler, servers>>
            ELSE \E now \in W.nows :
                 /\ pending_data' =
                        <<get_directory_listing(fs, current_directory, current_directory, now)>>
                 /\ Finish(c, cmd, FTPResponse(150,
                               Text("Opening ASCII mode data connection for file list")))
                 /\ UNCHANGED <<fs, current_directory, data_server, store_mode,
                                pending_store_filename, servers>>
      [] cmd.command = "QUIT" ->
            /\ servers' = CloseDataServer(servers, data_server)
            /\ Finish(c, cmd, FTPResponse(221, Text("Goodbye")))
            /\ UNCHANGED <<fs, handler>>
      [] cmd.command = "PASV" ->
            \* the old listener is closed and the port drawn; start_server then
            \* awaits the address resolution before it binds
            \E random_port \in W.ports :
                 /\ servers' = CloseDataServer(servers, data_server)
                 /\ Suspend(c, [cmd EXCEPT !.port = random_port], "resolve")
                 /\ UNCHANGED <<fs, handler>>

\* a coroutine handler from its own should_return_error check on
SubHandler(c, cmd, W) ==
    IF cmd.command \in error_settings
    THEN /\ Finish(c, cmd, SubHandlerFailed(cmd.command))
         /\ UNCHANGED <<fs, handler, servers>>
    ELSE \E delayed \in BOOLEAN :
         IF delayed
         THEN /\ Suspend(c, cmd, "sleep2")
              /\ UNCHANGED <<fs, handler, servers>>
         ELSE Body(c, cmd, W)

\* handle_command after its fault check and its delay: the handler is looked up
\* and called
Dispatch(c, cmd, W) ==
    IF cmd.command \in SubHandlerVerbs
    THEN SubHandler(c, cmd, W)
    ELSE /\ Finish(c, cmd, SimpleReply(cmd.command, current_directory))
         /\ UNCHANGED <<fs, handler, servers>>

\* a dispatcher that answered an injected fault as the sub-handlers do
FaultReplyAsSubHandler(command) == SubHandlerFailed(command)

\* the reply of handle_command's own fault check
FaultReply(command) == FTPResponse(500, CommandFailed(command))

\* the server accepts a control connection and greets it
AcceptClient(c) ==
    /\ pc[c] = "unconnected"
    /\ \A b \in Conns : b < c => pc[b] # "unconnected"
    /\ pc' = [pc EXCEPT ![c] = "read"]
    /\ transcript' = [transcript EXCEPT ![c] = <<Exchange("(connect)", <<>>, <<Greeting>>)>>]
    /\ UNCHANGED <<fs, handler, error_settings, servers, request, data, toggles>>

\* reader.read returns no data: the client closed the control connection
ClientCloses(c) ==
    /\ pc[c] = "read"
    /\ pc' = [pc EXCEPT ![c] = "closed"]
    /\ UNCHANGED <<fs, handler, error_settings, servers, request, transcript, data, toggles>>

\* a command line is read, parsed and handed to handle_command, which runs to
\* its first await or to its reply
ReadCommand(c, cmd, W) ==
    /\ pc[c] = "read"
    /\ CmdCount < W.limit
    /\ IF cmd.command \in error_settings
       THEN /\ Finish(c, cmd, FaultReply(cmd.command))
            /\ UNCHANGED <<fs, handler, servers>>
       ELSE \E delayed \in BOOLEAN :
            IF delayed
            THEN /\ Suspend(c, cmd, "sleep1")
                 /\ UNCHANGED <<fs, handler, servers>>
            ELSE Dispatch(c, cmd, W)
    /\ UNCHANGED <<error_settings, data, toggles>>

\* handle_command's asyncio.sleep(delay) returns
WakeDispatch(c, W) ==
    /\ pc[c] = "sleep1"
    /\ Dispatch(c, request[c][1], W)
    /\ UNCHANGED <<error_settings, data, toggles>>

\* the sub-handler's asyncio.sleep(delay) returns
WakeBody(c, W) ==
    /\ pc[c] = "sleep2"
    /\ Body(c, request[c][1], W)
    /\ UNCHANGED <<error_settings, data, toggles>>

\* asyncio.start_server binds and listens, or raises when the port is taken;
\* it then skips one loop iteration
PasvBind(c) ==
    /\ pc[c] = "resolve"
    /\ LET cmd == request[c][1]
       IN  IF cmd.port \in OpenPorts
           THEN /\ Abort(c, cmd)
                /\ UNCHANGED servers
           ELSE /\ servers' = Append(servers, [port |-> cmd.port, open |-> TRUE, owner |-> c])
                /\ Suspend(c, [cmd EXCEPT !.server = Len(servers) + 1], "serving")
    /\ UNCHANGED <<fs, handler, error_settings, data, toggles>>

\* start_server returns: self.data_server is assigned and 227 is the reply
PasvReturn(c) ==
    /\ pc[c] = "serving"
    /\ LET cmd == request[c][1]
       IN  /\ data_server' = cmd.server
           /\ Finish(c, Command(cmd.command, cmd.args), PassiveReply(cmd.port))
    /\ UNCHANGED <<fs, current_directory, store_mode, pending_store_filename, pending_data,
                   error_settings, servers, data, toggles>>

(***************************************************************************)
(* The data channel: FTPCommandHandler.handle_data_connection, started by  *)
(* the listener for each connection it accepts                             *)
(***************************************************************************)

DataConn(server) ==
    [server |-> server, pc |-> "backlog", received |-> <<>>, closed |-> FALSE]

\* the port a 227 reply announces: p1 * 256 + p2
AnnouncedPort(response) == response.message.nums[5] * 256 + response.message.nums[6]

\* the ports the replies on control connection c have announced
AnnouncedPorts(c) ==
    {AnnouncedPort(transcript[c][i].lines[1]) :
        i \in {j \in 1..Len(transcript[c]) :
                  /\ transcript[c][j].lines # <<>>
                  /\ transcript[c][j].lines[1].code = 227}}

\* the client of control connection c connects to a port it was told, where a
\* listener is open
ConnectData(c, s) ==
    /\ pc[c] \notin {"unconnected", "closed"}
    /\ Len(data) < MaxData
    /\ s \in 1..Len(servers)
    /\ servers[s].open
    /\ servers[s].port \in AnnouncedPorts(c)
    /\ data' = Append(data, DataConn(s))
    /\ UNCHANGED <<fs, handler, error_settings, servers, pc, request, transcript, toggles>>

\* the listing branch of handle_data_connection: the payload is written (it is
\* far below the transport's high-water mark, so drain() does not wait) and
\* the connection closed
SendListing(conn, payload) ==
    [conn EXCEPT !.pc = "finished", !.received = payload, !.closed = TRUE]

\* handle_data_connection returns, or raises, with no writer.close(): the
\* connection stays open while the StreamReaderProtocol holds the writer, and
\* is closed by the interpreters that drop the writer, or close the transport
\* after an exception, when the task is done
LeftToInterpreter(conn, at) ==
    {[conn EXCEPT !.pc = at, !.closed = closed] : closed \in BOOLEAN}

\* the listener accepts the connection and handle_data_connection runs to its
\* first await or to its end
AcceptData(d) ==
    /\ d \in 1..Len(data)
    /\ data[d].pc = "backlog"
    /\ servers[data[d].server].open
    /\ IF store_mode
       THEN /\ data' = [data EXCEPT ![d].pc = "reading"]
            /\ UNCHANGED pending_data
       ELSE IF pending_data # <<>>
       THEN /\ data' = [data EXCEPT ![d] = SendListing(@, pending_data)]
            /\ pending_data' = <<>>
       ELSE /\ \E conn \in LeftToInterpreter(data[d], "finished") :
                  data' = [data EXCEPT ![d] = conn]
            /\ UNCHANGED pending_data
    /\ UNCHANGED <<fs, current_directory, data_server, store_mode, pending_store_filename,
                   error_settings, servers, pc, request, transcript, toggles>>

\* the client has sent content and closed its end: reader.read() returns and
\* the store branch runs to its end, or raises on a filename of None
UploadDone(d, content, now) ==
    /\ d \in 1..Len(data)
    /\ data[d].pc = "reading"
    /\ IF pending_store_filename = <<>>
       THEN /\ \E conn \in LeftToInterpreter(data[d], "failed") :
                  data' = [data EXCEPT ![d] = conn]
            /\ UNCHANGED <<fs, store_mode, pending_store_filename>>
       ELSE /\ fs' = store_file(fs, StorePath(current_directory, pending_store_filename[1]),
                                content, now)
            /\ store_mode' = FALSE
            /\ pending_store_filename' = <<>>
            /\ data' = [data EXCEPT ![d].pc = "finished", ![d].closed = TRUE]
    /\ UNCHANGED <<current_directory, data_server, pending_data, error_settings, servers,
                   pc, request, transcript, toggles>>

(***************************************************************************)
(* The settings window (MockServerGUI), which runs in a thread of its own  *)
(***************************************************************************)

\* the operator ticks or clears the error box of a verb
SetError(command, value) ==
    /\ toggles < MaxToggles
    /\ (command \in error_settings) # value
    /\ error_settings' = IF value THEN error_settings \cup {command}
                                  ELSE error_settings \ {command}
    /\ toggles' = toggles + 1
    /\ UNCHANGED <<fs, handler, servers, pc, request, transcript, data>>

(***************************************************************************)
(* Inputs                                                                  *)
(***************************************************************************)

NameNewfile == <<"n", "e", "w", "f", "i", "l", "e", ".", "t", "x", "t">>
NameDocsN == <<"d", "o", "c", "s", "/", "n", ".", "t", "x", "t">>
DotDot == <<".", ".">>
NoSuch == <<"n", "o", "s", "u", "c", "h">>

\* what datetime.now() returns: the first renders like the fixture's README.txt
NowSamples == { <<2025, 1, 1, 0, 0, 30>>, <<2025, 6, 15, 12, 30, 0>> }

\* the ports random.randint draws in the runs of Spec
PortSamples == {PortLow, PortHigh}

\* what a client uploads
Uploads == { Bytes("", 0), Bytes("hello", 5) }

\* the command lines the clients of Spec send
Commands ==
    {Command(v, <<>>) : v \in {"PASV", "LIST", "QUIT"}}
    \cup {Command("CWD", a) : a \in {PathDocs}}
    \cup {Command("STOR", a) : a \in {NameNewfile, NameReadme, NameDocsN}}

\* what the environment of a specification may do: the ports random.randint
\* draws, the times datetime.now() returns, the number of command lines
Workload(ports, nows, limit) == [ports |-> ports, nows |-> nows, limit |-> limit]

(***************************************************************************)
(* Spec: clients that navigate, open passive listeners, list, upload and   *)
(* quit, with no fault injected                                            *)
(***************************************************************************)

Transfers == Workload(PortSamples, NowSamples, MaxCmds)

Next ==
    \/ \E c \in Conns : AcceptClient(c)
    \/ \E c \in Conns : ClientCloses(c)
    \/ \E c \in Conns, cmd \in Commands : ReadCommand(c, cmd, Transfers)
    \/ \E c \in Conns : WakeDispatch(c, Transfers)
    \/ \E c \in Conns : WakeBody(c, Transfers)
    \/ \E c \in Conns : PasvBind(c)
    \/ \E c \in Conns : PasvReturn(c)
    \/ \E c \in Conns, s \in 1..Len(servers) : ConnectData(c, s)
    \/ \E d \in 1..Len(data) : AcceptData(d)
    \/ \E d \in 1..Len(data), content \in Uploads, now \in NowSamples : UploadDone(d, content, now)

Spec == Init /\ [][Next]_vars

(***************************************************************************)
(* SpecCwd: clients that navigate and ask for the working directory        *)
(***************************************************************************)

ArgEmpty == << >>
ArgSlash == <<"/">>
ArgSlashSlash == <<"/", "/">>
ArgDotDotSlash == <<".", ".", "/">>
ArgDocsSlash == <<"d", "o", "c", "s", "/">>
ArgDocsSpecs == <<"d", "o", "c", "s", "/", "s", "p", "e", "c", "s">>
ArgDocsSlashSlashSpecs == <<"d", "o", "c", "s", "/", "/", "s", "p", "e", "c", "s">>
ArgSpecsSlashSlash == <<"s", "p", "e", "c", "s", "/", "/">>
ArgImagesThumbnailsSlashes ==
    <<"/", "i", "m", "a", "g", "e", "s", "/", "/", "/",
      "t", "h", "u", "m", "b", "n", "a", "i", "l", "s", "/">>
ArgDocsDotDotImages ==
    <<"/", "d", "o", "c", "s", "/", ".", ".", "/", "i", "m", "a", "g", "e", "s">>

\* the keys of the fixture
FixturePaths == {Root, PathDocs, PathDocsSpecs, PathImages, PathImagesThumbnails}

\* the command lines the clients of SpecCwd send
CwdCommands ==
    {Command("PWD", <<>>)} \cup {Command("CWD", a) : a \in FixturePaths \cup {DotDot}}

Navigation == Workload({}, NowSamples, MaxCmds)

NextCwd ==
    \/ \E c \in Conns : AcceptClient(c)
    \/ \E c \in Conns, cmd \in CwdCommands : ReadCommand(c, cmd, Navigation)
    \/ \E c \in Conns : WakeDispatch(c, Navigation)
    \/ \E c \in Conns : WakeBody(c, Navigation)

SpecCwd == Init /\ [][NextCwd]_vars

(***************************************************************************)
(* SpecResolve: clients that send CWD with arguments of every shape        *)
(***************************************************************************)

\* the arguments of the CWD lines the clients of SpecResolve send
ResolveArgs ==
    FixturePaths \cup {DotDot, NoSuch, ArgEmpty, ArgSlashSlash, NameSpecs, ArgDocsSlash,
                       ArgDotDotSlash, ArgDocsSlashSlashSpecs, ArgSpecsSlashSlash,
                       ArgImagesThumbnailsSlashes, ArgDocsDotDotImages}

ResolveCommands == {Command("PWD", <<>>)} \cup {Command("CWD", a) : a \in ResolveArgs}

Resolution == Workload({}, NowSamples, MaxResolveCmds)

NextResolve ==
    \/ \E c \in Conns : AcceptClient(c)
    \/ \E c \in Conns, cmd \in ResolveCommands : ReadCommand(c, cmd, Resolution)
    \/ \E c \in Conns : WakeDispatch(c, Resolution)
    \/ \E c \in Conns : WakeBody(c, Resolution)

SpecResolve == Init /\ [][NextResolve]_vars

(***************************************************************************)
(* SpecPasv: clients that open passive listeners, on every port that       *)
(* random.randint can draw                                                 *)
(***************************************************************************)

PasvCommands == {Command("PASV", <<>>), Command("QUIT", <<>>)}

Passive == Workload(RandomPorts, NowSamples, MaxPasvCmds)

NextPasv ==
    \/ \E c \in Conns : AcceptClient(c)
    \/ \E c \in Conns, cmd \in PasvCommands : ReadCommand(c, cmd, Passive)
    \/ \E c \in Conns : WakeDispatch(c, Passive)
    \/ \E c \in Conns : WakeBody(c, Passive)
    \/ \E c \in Conns : PasvBind(c)
    \/ \E c \in Conns : PasvReturn(c)

SpecPasv == Init /\ [][NextPasv]_vars

(***************************************************************************)
(* SpecFault: clients that send every verb, and transfer, while the        *)
(* operator sets and clears error flags                                    *)
(***************************************************************************)

FaultCommands ==
    {Command(v, <<>>) : v \in {"USER", "PASS", "PWD", "TYPE", "PASV", "LIST", "QUIT", "NOOP"}}
    \cup {Command("CWD", PathDocs), Command("CWD", NoSuch), Command("STOR", NameNewfile)}

Faults == Workload(PortSamples, NowSamples, MaxFaultCmds)

NextFault ==
    \/ \E c \in Conns : AcceptClient(c)
    \/ \E c \in Conns : ClientCloses(c)
    \/ \E c \in Conns, cmd \in FaultCommands : ReadCommand(c, cmd, Faults)
    \/ \E c \in Conns : WakeDispatch(c, Faults)
    \/ \E c \in Conns : WakeBody(c, Faults)
    \/ \E c \in Conns : PasvBind(c)
    \/ \E c \in Conns : PasvReturn(c)
    \/ \E c \in Conns, s \in 1..Len(servers) : ConnectData(c, s)
    \/ \E d \in 1..Len(data) : AcceptData(d)
    \/ \E d \in 1..Len(data), content \in Uploads, now \in NowSamples : UploadDone(d, content, now)
    \/ \E command \in Verbs, value \in BOOLEAN : SetError(command, value)

SpecFault == Init /\ [][NextFault]_vars

(***************************************************************************)
(* Properties                                                              *)
(***************************************************************************)

\* the last exchange of a transcript
LastExchange(t) == t[Len(t)]

\* in this step control connection c reads a command line
ReadsCommand(c) ==
    /\ pc[c] = "read"
    /\ \/ request'[c] # <<>>
       \/ Len(transcript'[c]) = Len(transcript[c]) + 1

\* the verb of the command line c reads in this step
VerbRead(c) ==
    IF request'[c] # <<>> THEN request'[c][1].command ELSE LastExchange(transcript'[c]).command

\* in this step control connection c is answered
Answers(c) == Len(transcript'[c]) = Len(transcript[c]) + 1 /\ Len(transcript[c]) > 0

\* C1: a command line of a supported verb that is read while the error flag
\* of its verb is set is answered at once with 500 "<VERB> command failed",
\* and with nothing else: not with the verb's success code, nor with 550 or 425.
C1_FaultOverrides ==
    [][\A c \in Conns :
          (ReadsCommand(c) /\ VerbRead(c) \in error_settings)
          => /\ Answers(c)
             /\ LET e == LastExchange(transcript'[c])
                IN  /\ e.command \in Verbs
                    /\ Len(e.lines) = 1
                    /\ e.lines[1].code = 500
                    /\ e.lines[1].message.text = "{command} command failed"
                    /\ e.lines[1].message.str = <<e.command>>]_vars

\* C1 witness: CWD, whose own failure code is 550, was answered 500 under its flag
C1_Witness ==
    \E c \in Conns : \E i \in 1..Len(transcript[c]) :
        /\ transcript[c][i].command = "CWD"
        /\ "CWD" \in error_settings
        /\ transcript[c][i].lines = <<FTPResponse(500, CommandFailed("CWD"))>>

\* exchange i of control connection c was answered
Answered(c, i) == transcript[c][i].lines # <<>>

\* exchange i of control connection c was answered with code
AnsweredWith(c, i, code) == Answered(c, i) /\ transcript[c][i].lines[1].code = code

\* the reply is one of the injected faults
IsFaultReply(response) == response.message.text = "{command} command failed"

\* C2: a LIST or STOR on a control connection on which no earlier PASV was
\* answered 227 is answered 425 "Use PASV first" (unless a fault is injected),
\* whatever the other connections have done.
C2_NeedsOwnPasv ==
    \A c \in Conns : \A i \in 1..Len(transcript[c]) :
        ( /\ transcript[c][i].command \in {"LIST", "STOR"}
          /\ Answered(c, i)
          /\ ~IsFaultReply(transcript[c][i].lines[1])
          /\ \A j \in 1..(i - 1) : ~AnsweredWith(c, j, 227) )
        => transcript[c][i].lines = <<FTPResponse(425, Text("Use PASV first"))>>

\* C3: when CWD p, for a key p of the fixture, and then PWD are the next two
\* commands answered on a control connection, CWD is answered 250 and PWD is
\* answered 257 with p in quotes.
C3_CwdThenPwd ==
    \A c \in Conns : \A i \in 1..(Len(transcript[c]) - 1) :
        ( /\ transcript[c][i].command = "CWD"
          /\ transcript[c][i].args \in FixturePaths
          /\ transcript[c][i + 1].command = "PWD"
          /\ Answered(c, i) /\ ~IsFaultReply(transcript[c][i].lines[1])
          /\ Answered(c, i + 1) /\ ~IsFaultReply(transcript[c][i + 1].lines[1]) )
        => /\ transcript[c][i].lines[1].code = 250
           /\ transcript[c][i + 1].lines =
                  <<FTPResponse(257, IsCurrentDirectory(transcript[c][i].args))>>

\* a string with each '/' of base written k times, and t more '/' at its end
RECURSIVE Slashes(_)
Slashes(k) == IF k = 0 THEN <<>> ELSE <<"/">> \o Slashes(k - 1)

RECURSIVE Stretch(_, _)
Stretch(base, k) ==
    IF Len(base) = 0 THEN <<>>
    ELSE (IF base[1] = "/" THEN Slashes(k) ELSE <<base[1]>>) \o Stretch(Tail(base), k)

\* the longest run of '/' and the most '/' appended in the arguments tried
MaxRun == 3
MaxTrail == 2

\* the arguments the separator claims are tried on: paths that exist, paths
\* that do not, "..", "" and "/", with their separators repeated and '/' appended
ArgBases ==
    FixturePaths \cup {ArgEmpty, DotDot, NoSuch, NameDocs, NameSpecs, NameThumbnails,
                       ArgDocsSpecs, ArgDocsDotDotImages}

ArgSamples ==
    ResolveArgs
    \cup {Stretch(b, k) \o Slashes(t) : b \in ArgBases, k \in 1..MaxRun, t \in 0..MaxTrail}

\* each run of '/' replaced by a single '/'
RECURSIVE Squeeze(_)
Squeeze(a) ==
    IF Len(a) < 2 THEN a
    ELSE IF a[1] = "/" /\ a[2] = "/" THEN Squeeze(Tail(a))
    ELSE <<a[1]>> \o Squeeze(Tail(a))

\* the trailing '/' removed
Untrail(a) == IF EndsWithSlash(a) THEN SubSeq(a, 1, Len(a) - 1) ELSE a

\* C4 as claimed: from the working directory, CWD with an argument gives the
\* reply and the working directory of CWD with the argument's runs of '/'
\* replaced by one '/' and its trailing '/' removed.
C4_SqueezedAndUntrailed ==
    \A a \in ArgSamples :
        CwdBody(fs, current_directory, a) = CwdBody(fs, current_directory, Untrail(Squeeze(a)))

\* the argument with its runs of '/' replaced by one '/', and its trailing '/'
\* removed unless that leaves ".." or nothing
SameAs(a) ==
    LET q == Squeeze(a)
    IN  IF Untrail(q) \in {DotDot, ArgEmpty} THEN q ELSE Untrail(q)

\* C4 (amended): from the working directory, CWD with an argument gives the
\* reply and the working directory of CWD with the argument's runs of '/'
\* replaced by one '/'; its trailing '/' can be removed as well, except where
\* that leaves ".." (which is then the parent directory) or the empty string
\* (which is then the working directory, not the root).
C4_Squeezed ==
    \A a \in ArgSamples :
        CwdBody(fs, current_directory, a) = CwdBody(fs, current_directory, SameAs(a))

\* C4 witness: docs//specs was resolved to /docs/specs and /images///thumbnails/
\* is resolved as /images/thumbnails is
C4_Witness ==
    /\ current_directory = PathDocsSpecs
    /\ \E c \in Conns : \E i \in 1..Len(transcript[c]) :
           /\ transcript[c][i].command = "CWD"
           /\ transcript[c][i].args = ArgDocsSlashSlashSpecs
           /\ AnsweredWith(c, i, 250)
    /\ ArgImagesThumbnailsSlashes \in ArgSamples
    /\ SameAs(ArgImagesThumbnailsSlashes) = PathImagesThumbnails
    /\ CwdBody(fs, current_directory, ArgImagesThumbnailsSlashes).current_directory =
           PathImagesThumbnails

\* the path without its last segment: what precedes its last '/', or "/"
ParentOf(path) ==
    LET k == CHOOSE i \in 1..Len(path) :
                 path[i] = "/" /\ \A j \in (i + 1)..Len(path) : path[j] # "/"
    IN  IF k = 1 THEN Root ELSE SubSeq(path, 1, k - 1)

\* C5: CWD ".." is answered 250 and leaves the working directory at the one
\* it had with its last path segment removed; from "/" it stays "/".
C5_DotDotPops ==
    [][\A c \in Conns :
          ( /\ Answers(c)
            /\ LastExchange(transcript'[c]).command = "CWD"
            /\ LastExchange(transcript'[c]).args = DotDot
            /\ ~IsFaultReply(LastExchange(transcript'[c]).lines[1]) )
          => /\ LastExchange(transcript'[c]).lines =
                    <<FTPResponse(250, Text("Directory successfully changed."))>>
             /\ current_directory' = ParentOf(current_directory)
             /\ (current_directory = Root => current_directory' = Root)]_vars

\* C5 witness: CWD ".." was answered 250 in /docs/specs and left /docs
C5_Witness ==
    /\ current_directory = PathDocs
    /\ \E c \in Conns :
           /\ Len(transcript[c]) >= 3
           /\ transcript[c][Len(transcript[c]) - 1].args = PathDocsSpecs
           /\ LastExchange(transcript[c]).command = "CWD"
           /\ LastExchange(transcript[c]).args = DotDot
           /\ AnsweredWith(c, Len(transcript[c]), 250)

\* C6: a 227 reply announces p1,p2 with 0 <= p1, p2 <= 255 and p1 * 256 + p2
\* a port of 50000..50100, which is the port of the listener this PASV opened:
\* that listener is open and is now the handler's data_server.
C6_PasvPort ==
    [][\A c \in Conns :
          (Answers(c) /\ LastExchange(transcript'[c]).lines # <<>>
                      /\ LastExchange(transcript'[c]).lines[1].code = 227)
          => LET nums == LastExchange(transcript'[c]).lines[1].message.nums
                 port == nums[5] * 256 + nums[6]
                 new == request[c][1].server
             IN  /\ Len(nums) = 6
                 /\ nums[5] \in 0..255 /\ nums[6] \in 0..255
                 /\ port >= 50000 /\ port <= 50100
                 /\ new \in 1..Len(servers')
                 /\ servers'[new].port = port
                 /\ servers'[new].open
                 /\ data_server' = new]_vars

\* C6 witness: a PASV was answered 227 with 195,180 and the listener on
\* 50100 is the data_server; another was answered with 195,80 (50000)
C6_Witness ==
    /\ data_server # 0
    /\ servers[data_server].port = 50100
    /\ servers[data_server].open
    /\ \E c \in Conns : \E i \in 1..Len(transcript[c]) :
           /\ AnsweredWith(c, i, 227)
           /\ transcript[c][i].lines[1].message.nums = <<127, 0, 0, 1, 195, 180>>
    /\ \E c \in Conns : \E i \in 1..Len(transcript[c]) :
           /\ AnsweredWith(c, i, 227)
           /\ transcript[c][i].lines[1].message.nums = <<127, 0, 0, 1, 195, 80>>

\* files with one more element at its end
Extends(longer, files) ==
    /\ Len(longer) = Len(files) + 1
    /\ SubSeq(longer, 1, Len(files)) = files

\* in this step the store branch of data connection d runs to its end
CompletesStore(d) == data[d].pc = "reading" /\ data'[d].pc = "finished"

\* C7: in every step the keys of the store and the child names of every
\* directory stay as they are and the file list of every directory keeps its
\* elements in place; a step that completes a store whose target directory is a
\* key appends one FileEntry of the target's name to that directory and changes
\* no other directory, whether or not the name is already there; no other
\* step changes the store.
C7_AppendOnly ==
    [][ /\ DOMAIN fs' = DOMAIN fs
        /\ \A p \in DOMAIN fs :
              /\ fs'[p].dirs = fs[p].dirs
              /\ fs'[p].files = fs[p].files \/ Extends(fs'[p].files, fs[p].files)
        /\ \A d \in 1..Len(data) :
              CompletesStore(d) =>
                 LET target == StorePath(current_directory, pending_store_filename[1])
                     dir == DirName(target)
                 IN  /\ dir \in DOMAIN fs =>
                           /\ Extends(fs'[dir].files, fs[dir].files)
                           /\ fs'[dir].files[Len(fs'[dir].files)].name = BaseName(target)
                     /\ \A p \in DOMAIN fs \ {dir} : fs'[p] = fs[p]
        /\ (\A d \in 1..Len(data) : ~CompletesStore(d)) => fs' = fs ]_vars

\* C7 witness: two stores under the name newfile.txt left two entries of that
\* name at the end of the root's list, after the two of the fixture
C7_Witness ==
    /\ Len(fs[Root].files) = 4
    /\ fs[Root].files[3].name = NameNewfile
    /\ fs[Root].files[4].name = NameNewfile
    /\ SubSeq(fs[Root].files, 1, 2) = InitialFs[Root].files

\* what was written for an exchange is one reply line, followed by the 226
\* exactly when its code is 150
OneReplyLine(e) ==
    /\ Len(e.lines) \in {1, 2}
    /\ e.lines[1].code # 226
    /\ Len(e.lines) = 2 <=> e.lines[1].code = 150
    /\ Len(e.lines) = 2 => e.lines[2] = TransferComplete

\* C8 as stated: every command line read on a control connection and handled
\* has exactly one reply line, followed by "226 Transfer complete" if and only
\* if its code is 150.
C8_OneReplyLine ==
    \A c \in Conns : \A i \in 2..Len(transcript[c]) : OneReplyLine(transcript[c][i])

\* C8: every command line read on a control connection and handled has exactly
\* one reply line, followed by "226 Transfer complete" if and only if its code
\* is 150, except a PASV whose listener cannot be bound: nothing is written
\* for it and it is the last command of its session, which is closed.
C8_OneReplyLineUnlessRaised ==
    \A c \in Conns : \A i \in 2..Len(transcript[c]) :
        IF Answered(c, i)
        THEN OneReplyLine(transcript[c][i])
        ELSE /\ transcript[c][i].command = "PASV"
             /\ i = Len(transcript[c])
             /\ pc[c] = "closed"

\* C8 witness: a LIST was answered 150 and then 226 though no data connection
\* was ever opened
C8_Witness ==
    /\ data = <<>>
    /\ \E c \in Conns : \E i \in 2..Len(transcript[c]) :
          /\ transcript[c][i].command = "LIST"
          /\ Len(transcript[c][i].lines) = 2
          /\ transcript[c][i].lines[1].code = 150
          /\ transcript[c][i].lines[2] = TransferComplete

\* on control connection c a PASV was answered 227 with the port of data
\* connection d's listener, and a later LIST was answered 150
ListedOver(c, d) ==
    \E i \in 1..Len(transcript[c]) : \E j \in (i + 1)..Len(transcript[c]) :
        /\ AnsweredWith(c, i, 227)
        /\ AnnouncedPort(transcript[c][i].lines[1]) = servers[data[d].server].port
        /\ transcript[c][j].command = "LIST"
        /\ AnsweredWith(c, j, 150)

\* no STOR was sent on any control connection
NoStorSent ==
    \A c \in Conns :
        /\ \A i \in 1..Len(transcript[c]) : transcript[c][i].command # "STOR"
        /\ \A i \in 1..Len(request[c]) : request[c][i].command # "STOR"

\* the names of the lines of a listing
LineNames(listing) == [i \in 1..Len(listing) |-> listing[i].name]

\* C9 as stated: once PASV was answered 227 and LIST 150 on a session (and no
\* upload was asked for), a data connection to the announced port whose handler
\* has run has received a listing and was closed by the server, whether it was
\* accepted before or after LIST was handled.
C9_ListingDelivered ==
    \A c \in Conns : \A d \in 1..Len(data) :
        (NoStorSent /\ ListedOver(c, d) /\ data[d].pc = "finished")
        => data[d].closed /\ data[d].received # <<>>

\* in this step the listener accepts data connection d
Accepts(d) == data[d].pc = "backlog" /\ data'[d].pc # "backlog"

\* what the code does for a listing: LIST answered 150 arms the complete
\* listing of the working directory ("." and "..", then its directories, then
\* its files); a data connection accepted while a listing is armed and no
\* upload is pending receives that listing whole, the listing is disarmed and
\* the server closes the connection; a data connection accepted while nothing
\* is armed (the client connected before LIST was handled) receives nothing.
ArmedListingDelivered ==
    [][ /\ \A c \in Conns :
              ( /\ Answers(c)
                /\ LastExchange(transcript'[c]).command = "LIST"
                /\ LastExchange(transcript'[c]).lines[1].code = 150 )
              => /\ \E now \in NowSamples :
                        pending_data' = <<get_directory_listing(fs, current_directory,
                                                                current_directory, now)>>
                 /\ LineNames(pending_data'[1]) =
                        << <<".">>, <<".", ".">> >>
                        \o fs[current_directory].dirs
                        \o [i \in 1..Len(fs[current_directory].files) |->
                               fs[current_directory].files[i].name]
        /\ \A d \in 1..Len(data) :
              (Accepts(d) /\ ~store_mode)
              => IF pending_data # <<>>
                 THEN /\ data'[d].received = pending_data
                      /\ data'[d].closed
                      /\ data'[d].pc = "finished"
                      /\ pending_data' = <<>>
                 ELSE /\ data'[d].received = <<>>
                      /\ data'[d].pc = "finished" ]_vars

\* C9, the interleaving that works: after PASV 227 and LIST 150 on a session
\* the data connection to the announced port has received the listing of "/"
\* and was closed
C9_Witness ==
    \E c \in Conns : \E d \in 1..Len(data) :
        /\ ListedOver(c, d)
        /\ data[d].closed
        /\ data[d].received # <<>>
        /\ LineNames(data[d].received[1]) =
               << <<".">>, <<".", ".">>, NameDocs, NameImages, NameReadme, NameDataBin >>

\* C10: every file line of the listing a LIST renders shows the name, the size
\* and the timestamp of the entry it stands for (so an entry stored by an
\* upload of n bytes is listed with size n), also when several entries of the
\* directory share a name.
C10_LinesShowTheirEntry ==
    [][\A c \in Conns :
          ( /\ Answers(c)
            /\ LastExchange(transcript'[c]).command = "LIST"
            /\ LastExchange(transcript'[c]).lines[1].code = 150 )
          => LET files == fs[current_directory].files
                 first == 2 + Len(fs[current_directory].dirs)
                 listing == pending_data'[1]
             IN  /\ Len(listing) = first + Len(files)
                 /\ \A i \in 1..Len(files) :
                       /\ listing[first + i].name = files[i].name
                       /\ listing[first + i].size = files[i].size
                       /\ listing[first + i].time = Strftime(files[i].modified)]_vars

\* control connection c was accepted and has sent no command line yet
SentNothing(c) == pc[c] = "read" /\ Len(transcript[c]) = 1

\* C11: a control connection that was accepted and has sent nothing yet has the
\* session state of a new session (working directory "/", no passive listener,
\* nothing armed), whatever the other connections and their data transfers
\* have done.
C11_PrivateSessionState ==
    \A c \in Conns :
        SentNothing(c)
        => /\ current_directory = Root
           /\ data_server = 0
           /\ ~store_mode
           /\ pending_store_filename = <<>>
           /\ pending_data = <<>>

\* the open listeners that the PASV commands of control connection c made
OpenListenersOf(c) == {s \in 1..Len(servers) : servers[s].open /\ servers[s].owner = c}

\* listener s is the one the session state holds, or the one a PASV is about
\* to return
Referenced(s) ==
    \/ s = data_server
    \/ \E c \in Conns : pc[c] = "serving" /\ request[c][1].server = s

\* C12: at every moment at most one of the listeners a control connection's
\* PASV commands made is open, and every open listener is referenced by the
\* session state, however the PASV commands interleave.
C12_OneListener ==
    /\ \A c \in Conns : Cardinality(OpenListenersOf(c)) <= 1
    /\ \A s \in 1..Len(servers) : servers[s].open => Referenced(s)

\* C13: once a control connection has ended (QUIT, the client closing, or an
\* exception), every listener its PASV commands made is closed.
C13_ListenersClosedAtEnd ==
    \A c \in Conns : pc[c] = "closed" => OpenListenersOf(c) = {}

\* the codes of the error replies
ErrorCodes == {500, 550, 425}

\* in this step control connection c is answered with an error reply
AnswersError(c) ==
    /\ Answers(c)
    /\ LastExchange(transcript'[c]).lines # <<>>
    /\ LastExchange(transcript'[c]).lines[1].code \in ErrorCodes

\* C14: a control connection that is answered 500, 550 or 425 stays open and
\* goes on to read its next command line.
C14_ErrorsKeepSession ==
    [][\A c \in Conns : AnswersError(c) => pc'[c] = "read"]_vars

\* in this step control connection c is answered to USER, PASS, PWD or TYPE
AnswersSimple(c) ==
    /\ Answers(c)
    /\ LastExchange(transcript'[c]).command \in {"USER", "PASS", "PWD", "TYPE"}

\* in this step the command of control connection c starts a delay
Delays(c) ==
    \/ pc[c] = "read" /\ pc'[c] \in {"sleep1", "sleep2"}
    \/ pc[c] = "sleep1" /\ pc'[c] = "sleep2"

\* C15: the steps of a command that is answered with an error reply (500, 550
\* or 425), and of USER, PASS, PWD and TYPE, leave the working directory, the
\* passive listener, the pending listing, the pending store target, store mode,
\* the listeners and the file store as they were.
C15_ErrorsChangeNothing ==
    [][\A c \in Conns :
          (AnswersError(c) \/ AnswersSimple(c) \/ Delays(c))
          => /\ fs' = fs
             /\ handler' = handler
             /\ servers' = servers]_vars

\* C15 witness: after CWD /docs a CWD to a missing directory was answered 550
\* and the working directory is still /docs
C15_Witness ==
    /\ current_directory = PathDocs
    /\ \E c \in Conns : \E i \in 2..Len(transcript[c]) :
          /\ transcript[c][i].command = "CWD"
          /\ transcript[c][i].args = NoSuch
          /\ transcript[c][i].lines = <<FTPResponse(550, Text("Directory not found."))>>

\* an absolute path with no empty segment and no trailing slash, the root apart
Canonical(path) ==
    /\ StartsWithSlash(path)
    /\ ~HasDoubleSlash(path)
    /\ path # Root => ~EndsWithSlash(path)

\* C16: the working directory is always a key of the file store and a
\* canonical absolute path; it starts as "/" and changes only in the step in
\* which a CWD is answered 250, to the path that CWD resolved and found in the
\* store.
C16_WorkingDirectoryIsKey ==
    /\ current_directory = Root
    /\ [](current_directory \in DOMAIN fs /\ Canonical(current_directory))
    /\ [][current_directory' # current_directory
           => \E c \in Conns :
                 /\ Answers(c)
                 /\ LastExchange(transcript'[c]).command = "CWD"
                 /\ LastExchange(transcript'[c]).lines[1].code = 250
                 /\ current_directory' =
                        ResolvePath(current_directory, LastExchange(transcript'[c]).args)
                 /\ current_directory' \in DOMAIN fs]_vars

\* C16 witness: CWD /images///thumbnails/ was answered 250 and the working
\* directory is the key /images/thumbnails
C16_Witness ==
    /\ current_directory = PathImagesThumbnails
    /\ \E c \in Conns : \E i \in 2..Len(transcript[c]) :
          /\ transcript[c][i].command = "CWD"
          /\ transcript[c][i].args = ArgImagesThumbnailsSlashes
          /\ transcript[c][i].lines[1].code = 250

\* data connection d has received a listing and was closed by the server
ListingTransferred(d) ==
    data[d].pc = "finished" /\ data[d].closed /\ data[d].received # <<>>

\* C17: a listener services one data connection: once a data connection has
\* received its listing and was closed, its listener is closed and is no
\* longer the passive listener of the session state.
C17_OneTransferPerListener ==
    \A d \in 1..Len(data) :
        ListingTransferred(d)
        => /\ ~servers[data[d].server].open
           /\ data_server # data[d].server

\* C18: the fault policy is asked once per command, when it is read: no
\* command is delayed a second time, and a command that was suspended in a
\* delay (so its flag was clear when it was read) is not answered with an
\* injected fault.
C18_PolicyQueriedOnce ==
    [][\A c \in Conns :
          /\ ~(pc[c] = "sleep1" /\ pc'[c] = "sleep2")
          /\ ( /\ pc[c] \in {"sleep1", "sleep2"}
               /\ Answers(c)
               /\ LastExchange(transcript'[c]).lines # <<>> )
             => ~IsFaultReply(LastExchange(transcript'[c]).lines[1])]_vars

\* C19: a data connection accepted while neither store mode nor a pending
\* listing is armed receives nothing, has nothing read from it, is closed by
\* the server, and the session state, the listeners and the store are left as
\* they were.
C19_IdleAcceptCloses ==
    [][\A d \in 1..Len(data) :
          (Accepts(d) /\ ~store_mode /\ pending_data = <<>>)
          => /\ data'[d].received = <<>>
             /\ data'[d].pc = "finished"
             /\ data'[d].closed
             /\ fs' = fs
             /\ handler' = handler
             /\ servers' = servers]_vars

\* a file name with no '/' in it
Plain(name) == \A i \in 1..Len(name) : name[i] # "/"

=============================================================================
